---- MODULE Spec2Model ----
(***************************************************************************)
(* Model of the SRT single-character caption merger                        *)
(*   src/srt-onechar-join.py          (variant "join")                     *)
(*   src/srt_merge_and_translate.py   (variant "translate")                *)
(*                                                                         *)
(* A line is a sequence of characters; a character is a one-element string *)
(* token.  A text (file content, str) is the sequence of the lines that    *)
(* "\n" separates, so the text "a\n" is << <<"a">>, <<>> >> and the empty  *)
(* text is << <<>> >>.  Python list indices are shifted by one (i = 1 is   *)
(* the first block).                                                       *)
(***************************************************************************)
EXTENDS Integers, Sequences, FiniteSets, TLC

VARIABLES
    variant,            \* which of the two scripts runs
    file,               \* content of filepath on disk
    bak,                \* content of backup_path on disk, or NoFile
    ko,                 \* content of output_path (.ko.srt) on disk, or NoFile
    pc,                 \* position inside process_srt_file
    original_content,   \* local of process_srt_file
    blocks,             \* local of merge_single_char_captions
    i,                  \* scan index of merge_single_char_captions
    merged,             \* local of merge_single_char_captions
    merged_content,     \* local of process_srt_file
    idx,                \* position of the translation loop in lines
    translated_lines,   \* local of process_srt_file
    in_text_block,      \* local of process_srt_file
    current_text,       \* local of process_srt_file
    calls,              \* log: the units handed to translate_ja_to_ko
    err,                \* exception raised in this call, "none" if none
    src,                \* log: per block of merged, the input indices it is made of
    tested,             \* log: the indices at which the scan stood
    parsed,             \* log: blocks as the scan of this call received them
    bak_made,           \* log: the backup content made in this call, or NoFile
    first_content,      \* log: content of filepath before the first call
    ncalls              \* number of calls of process_srt_file started

vars == << variant, file, bak, ko, pc, original_content, blocks, i, merged,
           merged_content, idx, translated_lines, in_text_block, current_text,
           calls, err, src, tested, parsed, bak_made, first_content, ncalls >>

\* ---------------------------------------------------------------- bounds
MaxBlocks == 3
MaxCalls == 2

\* ------------------------------------------------------------ characters
Space == " "
WhiteSpace == {Space, "fw"}             \* str.isspace / regex \s ("fw": U+3000)
Sho == "sho"                            \* the ideograph of the pattern, 1st
Shi == "shi"                            \* 2nd
Kyu == "kyu"                            \* 3rd
Terminal == {".", "maru", ",", "?"}     \* [\.。\,\?]
Digits == <<"0", "1", "2", "3", "4", "5", "6", "7", "8", "9">>
DigitSet == {Digits[k] : k \in 1..Len(Digits)}
Arrow == <<"-", "-", ">">>
NoFile == "NoFile"

Min(S) == CHOOSE x \in S : \A y \in S : x <= y
Max(S) == CHOOSE x \in S : \A y \in S : x >= y
Front(s) == SubSeq(s, 1, Len(s) - 1)
Last(s) == s[Len(s)]

\* ------------------------------------------------------------ str helpers
RECURSIVE LStrip(_)
LStrip(s) == IF s # <<>> /\ Head(s) \in WhiteSpace THEN LStrip(Tail(s)) ELSE s

RECURSIVE RStrip(_)
RStrip(s) == IF s # <<>> /\ Last(s) \in WhiteSpace THEN RStrip(Front(s)) ELSE s

Strip(s) == RStrip(LStrip(s))

NotSpaceChar(c) == c \notin WhiteSpace

\* re.sub(r'\s+', '', text)
RemoveSpace(s) == SelectSeq(s, NotSpaceChar)

\* ' '.join(parts)
RECURSIVE JoinSpace(_)
JoinSpace(parts) ==
    IF parts = <<>> THEN <<>>
    ELSE IF Len(parts) = 1 THEN parts[1]
    ELSE parts[1] \o <<Space>> \o JoinSpace(Tail(parts))

\* positions p at which sub occurs in s
Occurrences(s, sub) ==
    {p \in 1..(Len(s) - Len(sub) + 1) : SubSeq(s, p, p + Len(sub) - 1) = sub}

Contains(s, sub) == Occurrences(s, sub) # {}

\* s.split('-->'): the list of the pieces between the occurrences
RECURSIVE Split(_, _)
Split(s, sep) ==
    IF ~Contains(s, sep) THEN <<s>>
    ELSE LET p == Min(Occurrences(s, sep))
         IN  <<SubSeq(s, 1, p - 1)>> \o Split(SubSeq(s, p + Len(sep), Len(s)), sep)

\* str(n) for n >= 0
RECURSIVE Str(_)
Str(n) == IF n < 10 THEN <<Digits[n + 1]>>
          ELSE Str(n \div 10) \o <<Digits[(n % 10) + 1]>>

\* re.match(r'^\d+$', s)
IsNumber(s) == s # <<>> /\ \A k \in 1..Len(s) : s[k] \in DigitSet

\* ------------------------------------------------------------ text helpers
IsBlankLine(l) == Strip(l) = <<>>

\* text.strip() on a text held as its lines
RECURSIVE LStripText(_)
LStripText(t) ==
    IF Len(t) > 1 /\ IsBlankLine(t[1]) THEN LStripText(Tail(t))
    ELSE <<LStrip(t[1])>> \o Tail(t)

RECURSIVE RStripText(_)
RStripText(t) ==
    IF Len(t) > 1 /\ IsBlankLine(Last(t)) THEN RStripText(Front(t))
    ELSE Front(t) \o <<RStrip(Last(t))>>

StripText(t) == RStripText(LStripText(t))

\* text.splitlines()
SplitLines(t) == IF Last(t) = <<>> THEN Front(t) ELSE t

\* "\n".join(lines)
JoinLines(lines) == IF lines = <<>> THEN << <<>> >> ELSE lines

\* ------------------------------------------- remove_little_rest_phrases
OptSpace(s, P) ==
    P \cup {p + 1 : p \in {q \in P : q <= Len(s) /\ s[q] \in WhiteSpace}}

AfterChar(s, P, c) == {p + 1 : p \in {q \in P : q <= Len(s) /\ s[q] = c}}

\* positions reached after (\s)?少(\s)?し(\s)?休 matched from p
HeadEnds(s, p) ==
    AfterChar(s, OptSpace(s, AfterChar(s, OptSpace(s,
        AfterChar(s, OptSpace(s, {p}), Sho)), Shi)), Kyu)

\* end of the maximal run of terminal punctuation that starts at q
RECURSIVE RunEnd(_, _)
RunEnd(s, q) ==
    IF q + 1 <= Len(s) /\ s[q + 1] \in Terminal THEN RunEnd(s, q + 1) ELSE q

\* srt-onechar-join.py:  .+[\.。\,\?]{1,}   (greedy: up to the last terminal)
TailEndJoin(s, t) ==
    LET Q == {q \in (t + 1)..Len(s) : s[q] \in Terminal}
    IN  IF Q = {} THEN 0 ELSE Max(Q)

\* srt_merge_and_translate.py:  [^\.。\,\?]{1,}[\.。\,\?]{1,}
TailEndTranslate(s, t) ==
    LET Q == {q \in t..Len(s) : s[q] \in Terminal}
    IN  IF Q = {} \/ Min(Q) = t THEN 0 ELSE RunEnd(s, Min(Q))

\* index of the last character of the match that starts at p, 0 if none
MatchEnd(s, p, v) ==
    LET H == HeadEnds(s, p)
    IN  IF H = {} THEN 0
        ELSE LET t == Max(H)
             IN  IF v = "join" THEN TailEndJoin(s, t) ELSE TailEndTranslate(s, t)

\* re.sub(pattern, '', line): leftmost, non-overlapping matches removed
RECURSIVE ReSub(_, _, _)
ReSub(s, pos, v) ==
    IF pos > Len(s) THEN <<>>
    ELSE LET starts == {p \in pos..Len(s) : MatchEnd(s, p, v) # 0}
         IN  IF starts = {} THEN SubSeq(s, pos, Len(s))
             ELSE LET p == Min(starts)
                  IN  SubSeq(s, pos, p - 1) \o ReSub(s, MatchEnd(s, p, v) + 1, v)

remove_little_rest_phrases(line, v) == ReSub(line, 1, v)

\* ------------------------------------------- merge_single_char_captions
\* the block-splitting loop over lines
RECURSIVE ParseBlocks(_, _, _)
ParseBlocks(lines, current_block, bs) ==
    IF lines = <<>>
    THEN IF current_block # <<>> THEN Append(bs, current_block) ELSE bs
    ELSE IF IsBlankLine(Head(lines))
         THEN IF current_block # <<>>
              THEN ParseBlocks(Tail(lines), <<>>, Append(bs, current_block))
              ELSE ParseBlocks(Tail(lines), <<>>, bs)
         ELSE ParseBlocks(Tail(lines), Append(current_block, Head(lines)), bs)

Parse(srt_content) == ParseBlocks(SplitLines(StripText(srt_content)), <<>>, <<>>)

WellFormed(block) == Len(block) >= 3

\* text_parts = block[2:]  -- a copy of the lines, taken before the filter
text_parts(block) == SubSeq(block, 3, Len(block))

\* for j in range(2, len(block)): block[j] = remove_little_rest_phrases(block[j])
Filtered(block, v) ==
    [j \in 1..Len(block) |->
        IF j >= 3 THEN remove_little_rest_phrases(block[j], v) ELSE block[j]]

\* text = ' '.join(text_parts).strip()
text(block) == Strip(JoinSpace(text_parts(block)))

\* text_clean = re.sub(r'\s+', '', text)
text_clean(block) == RemoveSpace(text(block))

\* which path the loop body takes at index k
Branch(bs, k) ==
    IF ~WellFormed(bs[k]) THEN "malformed"
    ELSE IF k + 1 <= Len(bs) /\ Len(text_clean(bs[k])) = 1
         THEN IF ~WellFormed(bs[k + 1]) THEN "next_malformed"
              ELSE IF Len(Split(bs[k + 1][2], Arrow)) < 2 THEN "raise"
              ELSE "merge"
         ELSE "emit"

\* slip: the end time is taken from the current block's own time line
MergedBlock_OwnEnd(block, next_block) ==
    LET next_text == Strip(JoinSpace(SubSeq(next_block, 3, Len(next_block))))
        start_str == Strip(Split(block[2], Arrow)[1])
        next_end_str == Strip(Split(block[2], Arrow)[Len(Split(block[2], Arrow))])
        new_time_line == start_str \o <<Space>> \o Arrow \o <<Space>> \o next_end_str
    IN  << block[1], new_time_line, text(block) \o next_text >>

\* [num, new_time_line, combined_text]
MergedBlock(block, next_block) ==
    LET next_text == Strip(JoinSpace(SubSeq(next_block, 3, Len(next_block))))
        start_str == Strip(Split(block[2], Arrow)[1])
        next_end_str == Strip(Split(next_block[2], Arrow)[2])
        new_time_line == start_str \o <<Space>> \o Arrow \o <<Space>> \o next_end_str
    IN  << block[1], new_time_line, text(block) \o next_text >>

\* the block appended to merged at index k
Emitted(bs, k, v) ==
    LET br == Branch(bs, k)
    IN  IF br = "malformed" THEN bs[k]
        ELSE IF br = "merge" THEN MergedBlock(bs[k], bs[k + 1])
        ELSE Filtered(bs[k], v)

\* blocks after the loop body ran at index k (the filter writes into blocks[k])
Mutated(bs, k, v) ==
    IF WellFormed(bs[k]) THEN [bs EXCEPT ![k] = Filtered(bs[k], v)] ELSE bs

\* slip: the scan resumes at the consumed block
Advance_One(br) == IF br = "merge" THEN 1 ELSE 1

\* i += 2 after a merge, i += 1 otherwise
Advance(br) == IF br = "merge" THEN 2 ELSE 1

RECURSIVE Scan(_, _, _, _)
Scan(bs, k, mg, v) ==
    IF k > Len(bs) THEN [raised |-> FALSE, merged |-> mg]
    ELSE IF Branch(bs, k) = "raise" THEN [raised |-> TRUE, merged |-> mg]
    ELSE Scan(Mutated(bs, k, v), k + Advance(Branch(bs, k)),
              Append(mg, Emitted(bs, k, v)), v)

\* slip: the block keeps the number line it came with
BlockLines_KeepNum(block, new_index) ==
    <<block[1]>> \o SubSeq(block, 2, Len(block)) \o << <<>> >>

\* the lines one block of merged adds to result_lines
BlockLines(block, new_index) ==
    <<Str(new_index)>> \o SubSeq(block, 2, Len(block)) \o << <<>> >>

\* slip: the renumbering loop does not skip the short blocks
RECURSIVE ResultLines_NoSkip(_, _)
ResultLines_NoSkip(mg, new_index) ==
    IF mg = <<>> THEN <<>>
    ELSE BlockLines(Head(mg), new_index) \o ResultLines_NoSkip(Tail(mg), new_index + 1)

RECURSIVE ResultLines(_, _)
ResultLines(mg, new_index) ==
    IF mg = <<>> THEN <<>>
    ELSE IF ~WellFormed(Head(mg)) THEN ResultLines(Tail(mg), new_index)
    ELSE BlockLines(Head(mg), new_index) \o ResultLines(Tail(mg), new_index + 1)

\* "\n".join(result_lines).rstrip() + "\n"
Serialize(mg) == Append(RStripText(JoinLines(ResultLines(mg, 1))), <<>>)

\* the function as a whole: [raised, out]
merge_single_char_captions(srt_content, v) ==
    LET r == Scan(Parse(srt_content), 1, <<>>, v)
    IN  IF r.raised THEN [raised |-> TRUE, out |-> << <<>> >>]
        ELSE [raised |-> FALSE, out |-> Serialize(r.merged)]

\* ------------------------------------------------------------- inputs
Stamp(d) == <<"0", ":", d>>
MkTime(start, end) == start \o <<Space>> \o Arrow \o <<Space>> \o end
Stamps == {Stamp(Digits[k]) : k \in 2..7}

\* bodies of the caption blocks (time range line, text lines)
SingleBody == << MkTime(Stamp("1"), Stamp("2")), <<"fw", "a", Space>> >>
RestBody == << MkTime(Stamp("3"), Stamp("4")), <<Sho, Shi, Kyu, "a", "maru">> >>
SingleAfterBody == << MkTime(Stamp("4"), Stamp("5")), <<"c", Sho, Space, Shi, Kyu, "a", "?">> >>
MultiBody == << MkTime(Stamp("5"), Stamp("6")), <<"c", "d">>,
                <<Space, Sho, Shi, Kyu, "a", "maru", "b", ".">>, <<"4", "2">>,
                <<"a", "-", "-", ">", "b">> >>
BadTimeBody == << <<"x", "x">>, <<"a">> >>
MalformedBody == << <<"x">> >>

Bodies == {SingleBody, RestBody, SingleAfterBody, MultiBody,
           BadTimeBody, MalformedBody}

Bases == {0, 7}

\* the text of a caption file: a leading blank line, then numbered blocks,
\* each followed by a blank line
RECURSIVE DocLines(_, _, _)
DocLines(bodies, k, base) ==
    IF k > Len(bodies) THEN <<>>
    ELSE <<Str(base + k)>> \o bodies[k] \o << <<>> >> \o DocLines(bodies, k + 1, base)

Doc(bodies, base) == << <<>> >> \o JoinLines(DocLines(bodies, 1, base))

Docs == {Doc(bodies, base) :
            bodies \in UNION {[1..n -> Bodies] : n \in 0..MaxBlocks}, base \in Bases}

\* ------------------------------------------------- translate_ja_to_ko
TranslationOutcomes == {"ok", "DeepLException"}

KoMark == <<"ko">>                      \* stands for the translated wording
FailMark == <<"[", "x", "]", Space>>    \* the "[번역 실패] " prefix

translate_ja_to_ko(txt, outcome) ==
    IF StripText(txt) = << <<>> >> THEN txt
    ELSE IF outcome = "ok"
         THEN StripText([k \in 1..Len(txt) |-> KoMark \o txt[k]])
         ELSE <<FailMark \o txt[1]>> \o Tail(txt)

\* translated_lines.extend(translate_ja_to_ko("\n".join(current_text)).splitlines())
Flushed(tl, ct, outcome) ==
    IF ct = <<>> THEN tl
    ELSE tl \o SplitLines(translate_ja_to_ko(JoinLines(ct), outcome))

Logged(cs, ct) == IF ct = <<>> THEN cs ELSE Append(cs, ct)

\* ------------------------------------------------------ process_srt_file
Resting == {"idle", "done", "failed", "skipped"}
EmptyText == << <<>> >>

Init ==
    /\ variant \in {"join", "translate"}
    /\ file \in Docs
    /\ bak = NoFile
    /\ ko = NoFile
    /\ pc = "idle"
    /\ original_content = EmptyText
    /\ blocks = <<>>
    /\ i = 1
    /\ merged = <<>>
    /\ merged_content = EmptyText
    /\ idx = 1
    /\ translated_lines = <<>>
    /\ in_text_block = FALSE
    /\ current_text = <<>>
    /\ calls = <<>>
    /\ err = "none"
    /\ src = <<>>
    /\ tested = {}
    /\ parsed = <<>>
    /\ bak_made = NoFile
    /\ first_content = file
    /\ ncalls = 0

disk == << file, bak, ko >>
scanvars == << blocks, i, merged, src, tested >>
transvars == << idx, translated_lines, in_text_block, current_text, calls >>
fixed == << variant, first_content, parsed >>

\* the call is entered: output_path does not exist (or the script has none)
Begin ==
    /\ pc \in Resting
    /\ ncalls < MaxCalls
    /\ ~(variant = "translate" /\ ko # NoFile)
    /\ pc' = "backup"
    /\ ncalls' = ncalls + 1
    /\ original_content' = EmptyText
    /\ merged_content' = EmptyText
    /\ blocks' = <<>> /\ i' = 1 /\ merged' = <<>> /\ src' = <<>> /\ tested' = {}
    /\ idx' = 1 /\ translated_lines' = <<>> /\ in_text_block' = FALSE
    /\ current_text' = <<>> /\ calls' = <<>>
    /\ err' = "none"
    /\ bak_made' = NoFile
    /\ parsed' = <<>>
    /\ UNCHANGED << disk, variant, first_content >>

\* if output_path.exists(): return
Skip ==
    /\ pc \in Resting
    /\ ncalls < MaxCalls
    /\ variant = "translate" /\ ko # NoFile
    /\ pc' = "skipped"
    /\ ncalls' = ncalls + 1
    /\ UNCHANGED << disk, fixed, original_content, merged_content, scanvars,
                    transvars, err, bak_made >>

\* an exception reaches the except clause, which only prints
Fail(e) ==
    /\ pc' = "failed"
    /\ err' = e

\* shutil.copy2(filepath, backup_path)
Backup ==
    /\ pc = "backup"
    /\ bak' = file
    /\ bak_made' = file
    /\ pc' = "read"
    /\ UNCHANGED << file, ko, fixed, original_content, merged_content, scanvars,
                    transvars, err, ncalls >>

\* copy2 raises: backup_path is untouched or left truncated
BackupFail ==
    /\ pc = "backup"
    /\ bak' \in {bak, EmptyText}
    /\ Fail("OSError")
    /\ UNCHANGED << file, ko, fixed, original_content, merged_content, scanvars,
                    transvars, bak_made, ncalls >>

\* original_content = filepath.read_text(); then the block splitting of merge
Read ==
    /\ pc = "read"
    /\ original_content' = file
    /\ blocks' = Parse(file)
    /\ parsed' = Parse(file)
    /\ i' = 1 /\ merged' = <<>> /\ src' = <<>> /\ tested' = {}
    /\ pc' = "scan"
    /\ UNCHANGED << disk, variant, first_content, merged_content, transvars, err,
                    bak_made, ncalls >>

ReadFail ==
    /\ pc = "read"
    /\ Fail("OSError")
    /\ UNCHANGED << disk, fixed, original_content, merged_content, scanvars,
                    transvars, bak_made, ncalls >>

\* one iteration of the while loop: block appended, index advanced
ScanStep ==
    /\ merged' = Append(merged, Emitted(blocks, i, variant))
    /\ blocks' = Mutated(blocks, i, variant)
    /\ i' = i + Advance(Branch(blocks, i))
    /\ src' = Append(src, IF Branch(blocks, i) = "merge" THEN {i, i + 1} ELSE {i})
    /\ tested' = tested \cup {i}
    /\ UNCHANGED << disk, fixed, pc, original_content, merged_content, transvars,
                    err, bak_made, ncalls >>

InScan == pc = "scan" /\ i <= Len(blocks)

\* if len(block) < 3: merged.append(block); i += 1; continue
ScanMalformed ==
    /\ InScan
    /\ Branch(blocks, i) = "malformed"
    /\ ScanStep

\* if len(next_block) < 3: merged.append(block); i += 1; continue
ScanNextMalformed ==
    /\ InScan
    /\ Branch(blocks, i) = "next_malformed"
    /\ ScanStep

\* merged.append([num, new_time_line, combined_text]); i += 2
ScanMerge ==
    /\ InScan
    /\ Branch(blocks, i) = "merge"
    /\ ScanStep

\* else: merged.append(block); i += 1
ScanEmit ==
    /\ InScan
    /\ Branch(blocks, i) = "emit"
    /\ ScanStep

\* next_time_line.split('-->')[1] on a line without '-->'
ScanRaise ==
    /\ pc = "scan"
    /\ i <= Len(blocks)
    /\ Branch(blocks, i) = "raise"
    /\ blocks' = Mutated(blocks, i, variant)
    /\ tested' = tested \cup {i}
    /\ Fail("IndexError")
    /\ UNCHANGED << disk, fixed, i, merged, src, original_content, merged_content,
                    transvars, bak_made, ncalls >>

\* the renumbering loop and the return of merge_single_char_captions
Serialized ==
    /\ pc = "scan"
    /\ i > Len(blocks)
    /\ merged_content' = Serialize(merged)
    /\ pc' = "compare"
    /\ UNCHANGED << disk, fixed, original_content, scanvars, transvars, err,
                    bak_made, ncalls >>

\* slip: the file is written whether or not the merge changed anything
Changed_Always == TRUE

\* if merged_content.strip() != original_content.strip()
Changed == StripText(merged_content) # StripText(original_content)

AfterCompare ==
    /\ pc' = IF variant = "join" THEN "done" ELSE "translate"
    /\ idx' = 1 /\ translated_lines' = <<>> /\ in_text_block' = FALSE
    /\ current_text' = <<>> /\ calls' = <<>>

\* filepath.write_text(merged_content)
Write ==
    /\ pc = "compare"
    /\ Changed
    /\ file' = merged_content
    /\ AfterCompare
    /\ UNCHANGED << bak, ko, fixed, original_content, merged_content, scanvars,
                    err, bak_made, ncalls >>

\* write_text raises: filepath is untouched or left truncated
WriteFail ==
    /\ pc = "compare"
    /\ Changed
    /\ file' \in {file, EmptyText}
    /\ Fail("OSError")
    /\ UNCHANGED << bak, ko, fixed, original_content, merged_content, scanvars,
                    transvars, bak_made, ncalls >>

NoChange ==
    /\ pc = "compare"
    /\ ~Changed
    /\ AfterCompare
    /\ UNCHANGED << disk, fixed, original_content, merged_content, scanvars,
                    err, bak_made, ncalls >>

\* ---------------------------------- the translation pass of process_srt_file
lines == SplitLines(merged_content)
stripped == Strip(lines[idx])

InLoop == pc = "translate" /\ idx <= Len(lines)

LoopFrame == UNCHANGED << disk, fixed, pc, original_content, merged_content,
                          scanvars, err, bak_made, ncalls >>

\* if not stripped: translate what is pending, keep the blank line
TLBlank ==
    /\ InLoop
    /\ stripped = <<>>
    /\ \E outcome \in TranslationOutcomes :
          translated_lines' = Append(Flushed(translated_lines, current_text, outcome), <<>>)
    /\ calls' = Logged(calls, current_text)
    /\ current_text' = <<>>
    /\ in_text_block' = FALSE
    /\ idx' = idx + 1
    /\ LoopFrame

\* if re.match(r'^\d+$', stripped): translate what is pending, copy the line
TLNumber ==
    /\ InLoop
    /\ stripped # <<>>
    /\ IsNumber(stripped)
    /\ \E outcome \in TranslationOutcomes :
          translated_lines' = Append(Flushed(translated_lines, current_text, outcome), lines[idx])
    /\ calls' = Logged(calls, current_text)
    /\ current_text' = <<>>
    /\ in_text_block' = FALSE
    /\ idx' = idx + 1
    /\ LoopFrame

\* if "-->" in stripped: copy the line, a text block starts
TLTime ==
    /\ InLoop
    /\ stripped # <<>>
    /\ ~IsNumber(stripped)
    /\ Contains(stripped, Arrow)
    /\ translated_lines' = Append(translated_lines, lines[idx])
    /\ in_text_block' = TRUE
    /\ idx' = idx + 1
    /\ UNCHANGED << current_text, calls >>
    /\ LoopFrame

\* if in_text_block: current_text.append(line)
TLText ==
    /\ InLoop
    /\ stripped # <<>>
    /\ ~IsNumber(stripped)
    /\ ~Contains(stripped, Arrow)
    /\ in_text_block
    /\ current_text' = Append(current_text, lines[idx])
    /\ idx' = idx + 1
    /\ UNCHANGED << translated_lines, in_text_block, calls >>
    /\ LoopFrame

\* else: translated_lines.append(line)
TLOther ==
    /\ InLoop
    /\ stripped # <<>>
    /\ ~IsNumber(stripped)
    /\ ~Contains(stripped, Arrow)
    /\ ~in_text_block
    /\ translated_lines' = Append(translated_lines, lines[idx])
    /\ idx' = idx + 1
    /\ UNCHANGED << in_text_block, current_text, calls >>
    /\ LoopFrame

\* the loop stands where translate_ja_to_ko is called
AtFlush == IF idx > Len(lines) THEN TRUE ELSE IsBlankLine(lines[idx]) \/ IsNumber(stripped)

\* translate_text raises something that is not a DeepLException
TranslateRaise ==
    /\ pc = "translate"
    /\ current_text # <<>>
    /\ AtFlush
    /\ calls' = Logged(calls, current_text)
    /\ Fail("Exception")
    /\ UNCHANGED << disk, fixed, original_content, merged_content, scanvars,
                    idx, translated_lines, in_text_block, current_text,
                    bak_made, ncalls >>

\* after the loop: translate what is pending
TLFinish ==
    /\ pc = "translate"
    /\ idx > Len(lines)
    /\ \E outcome \in TranslationOutcomes :
          translated_lines' = Flushed(translated_lines, current_text, outcome)
    /\ calls' = Logged(calls, current_text)
    /\ current_text' = <<>>
    /\ pc' = "save"
    /\ UNCHANGED << disk, fixed, original_content, merged_content, scanvars,
                    idx, in_text_block, err, bak_made, ncalls >>

\* translated_content = "\n".join(translated_lines).rstrip() + "\n"
translated_content == Append(RStripText(JoinLines(translated_lines)), <<>>)

\* output_path.write_text(translated_content)
SaveKo ==
    /\ pc = "save"
    /\ ko' = translated_content
    /\ pc' = "done"
    /\ UNCHANGED << file, bak, fixed, original_content, merged_content, scanvars,
                    transvars, err, bak_made, ncalls >>

\* write_text raises: output_path is absent or left truncated
SaveFail ==
    /\ pc = "save"
    /\ ko' \in {ko, EmptyText}
    /\ Fail("OSError")
    /\ UNCHANGED << file, bak, fixed, original_content, merged_content, scanvars,
                    transvars, bak_made, ncalls >>

Next ==
    \/ Begin \/ Skip
    \/ Backup \/ BackupFail
    \/ Read \/ ReadFail
    \/ ScanMalformed \/ ScanNextMalformed \/ ScanMerge \/ ScanEmit \/ ScanRaise
    \/ Serialized
    \/ Write \/ WriteFail \/ NoChange
    \/ TLBlank \/ TLNumber \/ TLTime \/ TLText \/ TLOther
    \/ TranslateRaise \/ TLFinish
    \/ SaveKo \/ SaveFail

Spec == Init /\ [][Next]_vars

TypeOK ==
    /\ variant \in {"join", "translate"}
    /\ pc \in Resting \cup {"backup", "read", "scan", "compare", "translate", "save"}
    /\ err \in {"none", "OSError", "IndexError", "Exception"}
    /\ i \in 1..(Len(blocks) + 1)
    /\ Len(src) = Len(merged)
    /\ ncalls \in 0..MaxCalls

\* ======================================================================
\* Properties
\* ======================================================================
\* the blocks the running call parsed, as they were before the scan
Input == parsed
AllWellFormed(bs) == \A k \in 1..Len(bs) : WellFormed(bs[k])
Compact(block) == RemoveSpace(Strip(JoinSpace(SubSeq(block, 3, Len(block)))))
HasArrow(block) == Contains(block[2], Arrow)
Returned == pc = "compare"
\* the scan is running or has just returned (its logs are as it left them)
Scanning == pc \in {"scan", "compare"}

\* C1: for an input whose blocks all have at least 3 lines, merging the output
\* of merge_single_char_captions again returns that output unchanged.
C1_Idempotent ==
    (Returned /\ AllWellFormed(Input))
        => merge_single_char_captions(merged_content, variant)
              = [raised |-> FALSE, out |-> merged_content]

\* C2: a well-formed block whose compact text has length 1 only after the
\* rest-phrase filter, followed by a well-formed block, is merged with it.
C2_FilterBeforeTest ==
    (/\ InScan
     /\ WellFormed(blocks[i])
     /\ i + 1 <= Len(blocks)
     /\ WellFormed(blocks[i + 1]) /\ HasArrow(blocks[i + 1])
     /\ Len(Compact(blocks[i])) # 1
     /\ Len(Compact(Filtered(blocks[i], variant))) = 1)
        => Branch(blocks, i) = "merge"

\* C3: every block that reaches the output carries the rest-phrase-filtered text
\* of the input blocks it is made of, alone or as either half of a merged pair.
FilteredText(block, v) ==
    Strip(JoinSpace(SubSeq(Filtered(block, v), 3, Len(block))))

C3_FilterEverywhere ==
    Returned =>
        \A m \in 1..Len(merged) :
            WellFormed(merged[m]) =>
                IF Cardinality(src[m]) = 1
                THEN merged[m] = Filtered(Input[Min(src[m])], variant)
                ELSE merged[m][3] = FilteredText(Input[Min(src[m])], variant)
                                      \o FilteredText(Input[Max(src[m])], variant)

\* the blocks of merged that the renumbering loop writes out
IsWellFormed(block) == Len(block) >= 3
Written == SelectSeq(merged, IsWellFormed)
SingleChar(block) == WellFormed(block) /\ Len(Compact(block)) = 1

\* C4: a block with fewer than 3 lines is never merged into another block, a
\* single-character block directly followed by one is emitted unchanged with
\* the scan advancing by one, and no line of it reaches the serialized output.
C4_MalformedRemoved ==
    Scanning =>
        /\ \A m \in 1..Len(merged) :
              /\ WellFormed(merged[m]) => \A k \in src[m] : WellFormed(Input[k])
              /\ (\E k \in src[m] : ~WellFormed(Input[k]))
                    => src[m] = {Min(src[m])} /\ merged[m] = Input[Min(src[m])]
        /\ \A m \in 1..Len(merged) :
              LET k == Min(src[m])
              IN  (SingleChar(Input[k]) /\ k + 1 <= Len(Input) /\ ~WellFormed(Input[k + 1]))
                     => /\ src[m] = {k}
                        /\ merged[m] = Input[k]
                        /\ i >= k + 1
                        /\ (i > k + 1 => k + 1 \in tested)
        /\ Returned => merged_content = Serialize(Written)

C4_Witness ==
    /\ Returned
    /\ \E k \in 1..(Len(Input) - 1) : SingleChar(Input[k]) /\ ~WellFormed(Input[k + 1])
    /\ Len(Written) >= 2
    /\ Len(Written) < Len(merged)

\* position in the output of the number line of the k-th written block
RECURSIVE Offset(_, _)
Offset(ws, k) == IF k = 1 THEN 1 ELSE Offset(ws, k - 1) + Len(ws[k - 1]) + 1

\* C5: the number lines of the serialized output are exactly 1, 2, ..., N in
\* emission order, N the number of written blocks, whatever the input numbers.
C5_Renumbering ==
    Returned =>
        /\ \A k \in 1..Len(Written) :
              SplitLines(merged_content)[Offset(Written, k)] = <<Digits[k + 1]>>
        /\ Len(Written) > 0
              => Len(SplitLines(merged_content)) <= Offset(Written, Len(Written) + 1) - 1

C5_Witness ==
    /\ Returned
    /\ Len(Written) >= 2
    /\ Input[1][1] # <<"1">>
    /\ Len(Written) < Len(Input)

\* C6: a merged pair carries "<start> --> <end>" with the first block's start
\* and the second block's end, and one text line: the first block's text
\* directly followed by the second block's text.
C6_MergeTiming ==
    Scanning => \A m \in 1..Len(merged) :
        Cardinality(src[m]) = 2 =>
            LET first == Input[Min(src[m])]
                second == Input[Max(src[m])]
            IN  /\ Len(merged[m]) = 3
                /\ merged[m][3] = Compact(first)
                                    \o Strip(JoinSpace(SubSeq(second, 3, Len(second))))
                /\ \A s1, e2 \in Stamps :
                      (/\ \E e1 \in Stamps : first[2] = MkTime(s1, e1)
                       /\ \E s2 \in Stamps : second[2] = MkTime(s2, e2))
                          => merged[m][2] = s1 \o <<" ", "-", "-", ">", " ">> \o e2

C6_Witness ==
    Scanning /\ \E m \in 1..Len(merged) :
        /\ Cardinality(src[m]) = 2
        /\ Len(Input[Max(src[m])]) > 3
        /\ \E s1, e1, s2, e2 \in Stamps :
              /\ Input[Min(src[m])][2] = MkTime(s1, e1)
              /\ Input[Max(src[m])][2] = MkTime(s2, e2)
              /\ s1 # s2 /\ e1 # e2

\* C7: the scan is one left-to-right pass: the written blocks partition the
\* input indices in order, none is made of more than two input blocks, a
\* consumed block is never tested, and three single-character blocks A, B, C
\* give (A+B) and C.
C7_NoCascade ==
    Scanning =>
        /\ \A m \in 1..Len(merged) :
              /\ Cardinality(src[m]) \in {1, 2}
              /\ Min(src[m]) = (IF m = 1 THEN 1 ELSE Max(src[m - 1]) + 1)
              /\ src[m] = Min(src[m])..Max(src[m])
              /\ Cardinality(src[m]) = 2 => Max(src[m]) \notin tested
              /\ Min(src[m]) \in tested
        /\ i = (IF merged = <<>> THEN 1 ELSE Max(src[Len(merged)]) + 1)
        /\ (Returned /\ Len(Input) = 3
                /\ \A k \in 1..3 : SingleChar(Input[k]) /\ HasArrow(Input[k]))
              => /\ Len(merged) = 2
                 /\ merged[1][1] = Input[1][1]
                 /\ merged[1][3] = Compact(Input[1]) \o Strip(Input[2][3])
                 /\ merged[2] = Input[3]

C7_Witness ==
    /\ Returned
    /\ Len(Input) = 3
    /\ \A k \in 1..3 : SingleChar(Input[k]) /\ HasArrow(Input[k])
    /\ Len(merged) = 2
    /\ merged[1][1] = Input[1][1]
    /\ merged[2][1] = Input[3][1]

\* C8: merge_single_char_captions raises no exception, whatever the time lines.
C8_Total == err # "IndexError"

\* C9: filepath is overwritten only once this call has made its backup and
\* only when the merged content differs from the original after trimming; the
\* backup made in a call stays as made for the rest of the call, failed or not.
C9_BackupBeforeWrite ==
    /\ [](bak_made # NoFile => bak = bak_made)
    /\ [][file' # file =>
            /\ pc = "compare"
            /\ bak_made # NoFile
            /\ bak_made = original_content
            /\ bak = bak_made
            /\ StripText(merged_content) # StripText(original_content)]_vars

C9_Witness ==
    /\ pc = "failed"
    /\ err \in {"OSError", "Exception"}
    /\ bak_made # NoFile
    /\ bak = bak_made
    /\ file # bak_made
    /\ file # EmptyText

\* the caption blocks of the merged content
Captions == SelectSeq(Parse(merged_content), IsWellFormed)
TranslatedCaptions == Parse(JoinLines(translated_lines))

\* C10: each caption block of the merged content has all of its text lines, and
\* only those, handed to translate_ja_to_ko in one call, and its number and
\* time-range lines are copied untranslated, whatever the text lines hold.
C10_TranslatedByBlock ==
    (pc = "save" /\ \A k \in 1..Len(Captions) : HasArrow(Captions[k])) =>
        /\ calls = [k \in 1..Len(Captions) |-> SubSeq(Captions[k], 3, Len(Captions[k]))]
        /\ Len(TranslatedCaptions) >= Len(Captions)
        /\ \A k \in 1..Len(Captions) :
              /\ TranslatedCaptions[k][1] = Captions[k][1]
              /\ TranslatedCaptions[k][2] = Captions[k][2]

\* C11: after one or more calls of process_srt_file on the same path, a file
\* whose content differs from what it was before the first call has that first
\* content in its backup file.
C11_OriginalRecoverable ==
    (ncalls >= 1 /\ pc \in Resting /\ file # first_content) => bak = first_content

====
